---- MODULE Spec2Model ----
(***************************************************************************)
(* GeoGrab (sc_rest_scraper): the pre-flight safety gate                   *)
(* (core/safety.py), the OID-paginated downloader (core/downloader.py)     *)
(* and the download loop of the dialog (gui/main_dialog.py).               *)
(*                                                                         *)
(* Units.  Extent coordinates are eighths of a degree, so an extent area is *)
(* in 64ths of a square degree (AreaUnit per square degree); the extent    *)
(* thresholds of SafetyConfig are in the same unit.  Eighths are exact in  *)
(* binary floating point, and so are their differences and products at     *)
(* this size: the float arithmetic of check is the integer arithmetic      *)
(* here.                                                                   *)
(***************************************************************************)
EXTENDS Integers, Sequences, FiniteSets, TLC

VARIABLES
  caller,          \* who drives the run: "gate", "download" or "gui"
  downloader,      \* the downloader object: [cls, TIMEOUT, BATCH_SIZE]
  config,          \* SafetyChecker.config
  geom_filter,     \* argument of check / download_features
  sr_wkid,         \* argument of check / download_features
  layer_type,      \* argument of check
  extent_rect,     \* argument of check
  server,          \* what the service answers: [count, ids]
  queries,         \* every request sent, in order:
                   \* [by, kind, params, timeout, status]
  gpc,             \* position inside SafetyChecker.check
  verdict,         \* the SafetyVerdict under construction / returned
  original_timeout,\* local of _get_feature_count
  dpc,             \* position inside download_features
  progress_cb,     \* whether a progress callback was supplied
  total,           \* locals of download_features
  oid_field,
  oids,
  nb,
  bi,
  batches,         \* the slices the batch loop formed so far, in order
  all_feats,
  sp_ref,
  result,          \* what download_features returned
  progress,        \* calls made to progress_cb: <<pct, total>>
  replies,         \* what fetch_json produced for each request of
                   \* download_features, in order
  gui,             \* _on_download: its position, counters and dialog reply
  conv,            \* to_qgis_layer: its arguments, locals and return value
  health           \* check_service_health calls: position, locals, results

vars == <<caller, downloader, config, geom_filter, sr_wkid, layer_type,
          extent_rect, server, queries, gpc, verdict, original_timeout,
          dpc, progress_cb, total, oid_field, oids, nb, bi, batches,
          all_feats, sp_ref, result, progress, replies, gui, conv, health>>

gateVars == <<gpc, verdict, original_timeout>>
dlVars == <<dpc, total, oid_field, oids, nb, bi, batches, all_feats, sp_ref,
            result, progress, replies>>
argVars == <<geom_filter, sr_wkid, layer_type, extent_rect>>

-----------------------------------------------------------------------------
(* Python values *)

None == "None"

Min(a, b) == IF a <= b THEN a ELSE b

Abs(a) == IF a < 0 THEN 0 - a ELSE a

\* xs[-1]
Last(xs) == xs[Len(xs)]

\* math.ceil(n / b) for n >= 0, b >= 1
Ceil(n, b) == (n + b - 1) \div b

\* xs[s:e] of a Python list, 0-based, for 0 <= s <= e <= len(xs)
Slice(xs, s, e) == SubSeq(xs, s + 1, e)

RECURSIVE Insert(_, _)
Insert(x, xs) ==
  IF xs = <<>> THEN <<x>>
  ELSE IF x < Head(xs) THEN <<x>> \o xs
  ELSE <<Head(xs)>> \o Insert(x, Tail(xs))

\* sorted(xs): ascending, every element kept (duplicates included)
RECURSIVE sorted(_)
sorted(xs) == IF xs = <<>> THEN <<>> ELSE Insert(Head(xs), sorted(Tail(xs)))

-----------------------------------------------------------------------------
(* SafetyConfig *)

\* 64ths of a square degree per square degree
AreaUnit == 8 * 8

DefaultConfig ==
  [ warn_feature_count |-> 10000,
    block_feature_count |-> 100000,
    warn_extent_sq_deg |-> 16,
    block_extent_sq_deg |-> 128,
    est_bytes_per_feature |-> 2000,
    count_timeout |-> 30,
    high_density_layer_types |->
      {"parcels", "address_points", "building_footprints", "contours",
       "flood_zones"} ]

\* a caller-supplied configuration below the density caps
TightConfig ==
  [ warn_feature_count |-> 1000,
    block_feature_count |-> 8000,
    warn_extent_sq_deg |-> 32,
    block_extent_sq_deg |-> 64,
    est_bytes_per_feature |-> 500,
    count_timeout |-> 10,
    high_density_layer_types |-> {"parcels", "zoning"} ]

Configs == {DefaultConfig, TightConfig}

-----------------------------------------------------------------------------
(* Arguments *)

\* A geometry filter is None or a dict; a dict is modelled by its key set and
\* the two payloads the code reads: its JSON text and its 'bbox' entry.
FilterNone == [isNone |-> TRUE, keys |-> {}, json |-> "null", bbox |-> ""]
FilterEmpty == [isNone |-> FALSE, keys |-> {}, json |-> "{}", bbox |-> ""]
FilterBbox ==
  [isNone |-> FALSE, keys |-> {"bbox"}, json |-> "{bbox}", bbox |-> "0,0,1,1"]
FilterRings ==
  [isNone |-> FALSE, keys |-> {"rings", "spatialReference"},
   json |-> "{rings,spatialReference}", bbox |-> ""]
FilterOther ==
  [isNone |-> FALSE, keys |-> {"spatialReference"},
   json |-> "{spatialReference}", bbox |-> ""]

Filters == {FilterNone, FilterEmpty, FilterBbox, FilterRings, FilterOther}

\* bool(geom_filter): None and the empty dict are falsy
Truthy(gf) == ~gf.isNone /\ gf.keys # {}

\* sr_wkid: 0 stands for None (both falsy)
Wkids == {0, 4326}

\* str(sr_wkid)
str(w) == IF w = 4326 THEN "4326" ELSE IF w = 0 THEN "0" ELSE "?"

\* layer_type hints; None is the absent hint
LayerTypes == {None, "parcels", "Parcels", "zoning"}

\* str.lower() on the hints above
lower(s) == IF s = "Parcels" THEN "parcels" ELSE s

\* extent_rect: <<>> stands for None (both falsy), else
\* <<xmin, ymin, xmax, ymax>>
ExtentNone == <<>>
ExtentSizes ==
  {<<0, 4>>, <<1, 3>>, <<2, 3>>, <<1, 7>>, <<4, 4>>, <<4, 8>>, <<8, 8>>,
   <<16, 8>>, <<16, 16>>}
ExtentRects ==
  {ExtentNone}
    \cup {<<0, 0, wh[1], wh[2]>> : wh \in ExtentSizes}
    \cup {<<wh[1], wh[2], 0, 0>> : wh \in {<<1, 7>>, <<4, 4>>}}
    \cup {<<3, 1, 19, 9>>}

-----------------------------------------------------------------------------
(* The service *)

\* A reply to a count request: the transport fails, or a JSON object comes
\* back with or without a 'count' member.
CountFail == [ok |-> FALSE, has |-> FALSE, count |-> 0]
CountMissing == [ok |-> TRUE, has |-> FALSE, count |-> 0]
CountOf(c) == [ok |-> TRUE, has |-> TRUE, count |-> c]

GateCounts ==
  {0, 999, 1000, 4999, 5000, 7999, 8000, 9999, 10000, 12000, 49999, 50000,
   99999, 100000}

GateCountReplies == {CountFail, CountMissing} \cup {CountOf(c) : c \in GateCounts}

-----------------------------------------------------------------------------
(* Requests *)

\* params[k] for the keys present; a dict is a function on its key set
HasKey(params, k) == k \in DOMAIN params

\* the geometry-filter part both _get_feature_count and _add_geom_params
\* attach to a request
GeomParams(gf, wk) ==
  IF Truthy(gf) /\ "rings" \in gf.keys
  THEN ("geometry" :> gf.json) @@ ("geometryType" :> "esriGeometryPolygon")
         @@ ("spatialRel" :> "esriSpatialRelIntersects")
         @@ (IF wk # 0 THEN ("inSR" :> str(wk)) ELSE << >>)
  ELSE IF Truthy(gf) /\ "bbox" \in gf.keys
  THEN ("geometry" :> gf.bbox) @@ ("geometryType" :> "esriGeometryEnvelope")
         @@ ("spatialRel" :> "esriSpatialRelIntersects")
         @@ (IF wk # 0 THEN ("inSR" :> str(wk)) ELSE << >>)
  ELSE << >>

\* the three parameters that make a request spatially filtered
HasSpatialPredicate(params) ==
  /\ HasKey(params, "geometry")
  /\ HasKey(params, "geometryType")
  /\ HasKey(params, "spatialRel")

\* a request as sent; its status becomes "ok" when a JSON object comes back
\* and "failed" when the fetch raises (transport failure, non-JSON body)
Request(by, kind, params, timeout) ==
  [by |-> by, kind |-> kind, params |-> params, timeout |-> timeout,
   status |-> "sent"]

\* the log with the outcome of the request in flight (the last one) filled in
Answered(log, ok) ==
  [log EXCEPT ![Len(log)].status = IF ok THEN "ok" ELSE "failed"]

\* The dialog runs in one thread.  A handler that calls processEvents may
\* have another handler run inside that call, and stands still until it
\* returns: gui.stack holds the handlers entered and not yet left, the
\* running one last ("download": _on_download, "health": the health loop of
\* _populate_quick_layers, "connect" and then "connected": a slot that lists
\* a service, before and after its request).
Front(xs) == SubSeq(xs, 1, Len(xs) - 1)

Top(stack) == IF stack = <<>> THEN "idle" ELSE Last(stack)

HasHealth(stack) == \E i \in 1..Len(stack) : stack[i] = "health"

\* the code of handler k is the one that runs (outside the dialog there is
\* one caller and it always runs)
Runs(k) == caller = "gui" => Top(gui.stack) = k

-----------------------------------------------------------------------------
(* RESTDownloader: construction *)

BATCH_SIZE == 500
TIMEOUT == 60

\* RESTDownloader(batch_size, timeout); 0 stands for an omitted argument
RESTDownloader(batch_size, timeout) ==
  [ cls |-> "RESTDownloader",
    BATCH_SIZE |-> IF batch_size # 0 THEN batch_size ELSE BATCH_SIZE,
    TIMEOUT |-> IF timeout # 0 THEN timeout ELSE TIMEOUT ]

\* any other object handed to check as its downloader: it has a TIMEOUT and
\* a fetch_json_post method
PostDownloader(timeout) ==
  [cls |-> "PostDownloader", BATCH_SIZE |-> BATCH_SIZE, TIMEOUT |-> timeout]

\* RESTDownloader defines fetch_json and no fetch_json_post
HasFetchJsonPost(d) == d.cls # "RESTDownloader"

-----------------------------------------------------------------------------
(* SafetyChecker.check *)

SafetyVerdict ==
  [ action |-> "proceed", feature_count |-> 0, est_bytes |-> 0,
    extent_sq_deg |-> 0, messages |-> <<>>, density_adjusted |-> FALSE ]

ExtentArea(ext) == Abs(ext[3] - ext[1]) * Abs(ext[4] - ext[2])

\* (faulty variant of CheckExtent: the block threshold compared with > instead of >=)
CheckExtentStrict(v, ext, cfg) ==
  IF ext = ExtentNone THEN [v |-> v, returned |-> FALSE]
  ELSE
    LET area == ExtentArea(ext)
        v1 == [v EXCEPT !.extent_sq_deg = area]
    IN IF area > cfg.block_extent_sq_deg
       THEN [v |-> [v1 EXCEPT !.action = "block",
                              !.messages = Append(@, "extent_block")],
             returned |-> TRUE]
       ELSE IF area >= cfg.warn_extent_sq_deg
       THEN [v |-> [v1 EXCEPT !.messages = Append(@, "extent_warn")],
             returned |-> FALSE]
       ELSE [v |-> v1, returned |-> FALSE]

\* (faulty variant of CheckExtent: an area in the warn band leaves no message)
CheckExtentNoWarn(v, ext, cfg) ==
  IF ext = ExtentNone THEN [v |-> v, returned |-> FALSE]
  ELSE
    LET area == ExtentArea(ext)
        v1 == [v EXCEPT !.extent_sq_deg = area]
    IN IF area >= cfg.block_extent_sq_deg
       THEN [v |-> [v1 EXCEPT !.action = "block",
                              !.messages = Append(@, "extent_block")],
             returned |-> TRUE]
       ELSE [v |-> v1, returned |-> FALSE]

\* Check 1, the extent area: [v, returned]
CheckExtent(v, ext, cfg) ==
  IF ext = ExtentNone THEN [v |-> v, returned |-> FALSE]
  ELSE
    LET area == ExtentArea(ext)
        v1 == [v EXCEPT !.extent_sq_deg = area]
    IN IF area >= cfg.block_extent_sq_deg
       THEN [v |-> [v1 EXCEPT !.action = "block",
                              !.messages = Append(@, "extent_block")],
             returned |-> TRUE]
       ELSE IF area >= cfg.warn_extent_sq_deg
       THEN [v |-> [v1 EXCEPT !.messages = Append(@, "extent_warn")],
             returned |-> FALSE]
       ELSE [v |-> v1, returned |-> FALSE]

\* (faulty variant of CheckFilter: the missing filter only adds a warning and the
\* count check still runs)
CheckFilterWarnOnly(v, gf) ==
  IF gf.isNone
  THEN [v |-> [v EXCEPT !.messages = Append(@, "no_filter")],
        returned |-> FALSE]
  ELSE [v |-> v, returned |-> FALSE]

\* Check 2, no spatial filter at all: [v, returned]
CheckFilter(v, gf) ==
  IF gf.isNone
  THEN [v |-> [v EXCEPT !.action = "block",
                        !.messages = Append(@, "no_filter")],
        returned |-> TRUE]
  ELSE [v |-> v, returned |-> FALSE]

\* Checks 1 and 2, which need no request: [v, returned]
CheckLocal(gf, ext, cfg) ==
  LET c1 == CheckExtent(SafetyVerdict, ext, cfg)
  IN IF c1.returned THEN c1 ELSE CheckFilter(c1.v, gf)

IsDense(lt, cfg) == lt # None /\ lower(lt) \in cfg.high_density_layer_types

\* (faulty variant of DensityAdjusted: the extent is not consulted)
DensityAdjustedAnyExtent(v, lt, cfg) == IsDense(lt, cfg)

\* `if is_dense and verdict.extent_sq_deg > 0.1`: no multiple of 1/64 lies
\* between 0.1 and the float written 0.1, so the test is 10 * area > 1
DensityAdjusted(v, lt, cfg) ==
  IsDense(lt, cfg) /\ v.extent_sq_deg * 10 > AreaUnit

EffectiveWarn(v, lt, cfg) ==
  IF DensityAdjusted(v, lt, cfg)
  THEN Min(cfg.warn_feature_count, 5000)
  ELSE cfg.warn_feature_count

EffectiveBlock(v, lt, cfg) ==
  IF DensityAdjusted(v, lt, cfg)
  THEN Min(cfg.block_feature_count, 50000)
  ELSE cfg.block_feature_count

\* (faulty variant of ApplyThresholds: earlier warnings do not keep a small
\* count from 'proceed')
ApplyThresholdsNoKeep(v, count, ew, eb) ==
  IF count >= eb
  THEN [v EXCEPT !.action = "block", !.messages = Append(@, "count_block")]
  ELSE IF count >= ew
  THEN [v EXCEPT !.action = IF @ # "block" THEN "warn" ELSE @,
                 !.messages = Append(@, "count_warn")]
  ELSE v

\* the thresholds applied to a known count
ApplyThresholds(v, count, ew, eb) ==
  LET v1 ==
        IF count >= eb
        THEN [v EXCEPT !.action = "block",
                       !.messages = Append(@, "count_block")]
        ELSE IF count >= ew
        THEN [v EXCEPT !.action = IF @ # "block" THEN "warn" ELSE @,
                       !.messages = Append(@, "count_warn")]
        ELSE IF v.messages = <<>> THEN [v EXCEPT !.action = "proceed"]
        ELSE v
  IN IF v1.messages # <<>> /\ v1.action = "proceed"
     THEN [v1 EXCEPT !.action = "warn"]
     ELSE v1

\* (faulty variant of CheckCount: a count of zero read as an unknown count)
CheckCountZeroUnknown(v, count, lt, cfg) ==
  LET v1 == [v EXCEPT !.feature_count = count]
  IN IF count <= 0
     THEN [v1 EXCEPT !.messages = Append(@, "count_unknown"),
                     !.action = IF @ # "block" THEN "warn" ELSE @]
     ELSE
       LET v2 == [v1 EXCEPT
                    !.est_bytes = count * cfg.est_bytes_per_feature,
                    !.density_adjusted = DensityAdjusted(v1, lt, cfg)]
       IN ApplyThresholds(v2, count, EffectiveWarn(v2, lt, cfg),
                          EffectiveBlock(v2, lt, cfg))

\* Check 3, from the count _get_feature_count returned to the verdict
CheckCount(v, count, lt, cfg) ==
  LET v1 == [v EXCEPT !.feature_count = count]
  IN IF count < 0
     THEN [v1 EXCEPT !.messages = Append(@, "count_unknown"),
                     !.action = IF @ # "block" THEN "warn" ELSE @]
     ELSE
       LET v2 == [v1 EXCEPT
                    !.est_bytes = count * cfg.est_bytes_per_feature,
                    !.density_adjusted = DensityAdjusted(v1, lt, cfg)]
       IN ApplyThresholds(v2, count, EffectiveWarn(v2, lt, cfg),
                          EffectiveBlock(v2, lt, cfg))

\* the request _get_feature_count builds
GateCountParams(gf, wk) ==
  ("where" :> "1=1") @@ ("returnCountOnly" :> "true") @@ ("f" :> "json")
    @@ GeomParams(gf, wk)

\* (faulty variant of GateCount: a failed request read as a count of zero)
GateCountZero(reply) ==
  IF reply.ok /\ reply.has THEN reply.count ELSE 0

\* result.get('count', -1) on the reply; -1 when the request raised
GateCount(reply) ==
  IF reply.ok /\ reply.has THEN reply.count ELSE -1

\* _get_feature_count as a whole: the AttributeError of a downloader
\* without fetch_json_post is caught like any failure of the request
_get_feature_count(d, reply) ==
  IF HasFetchJsonPost(d) THEN GateCount(reply) ELSE -1

\* check as a whole: the verdict it returns when the service would answer
\* the count request with reply
check(d, cfg, gf, lt, ext, reply) ==
  LET loc == CheckLocal(gf, ext, cfg)
  IN IF loc.returned THEN loc.v
     ELSE CheckCount(loc.v, _get_feature_count(d, reply), lt, cfg)

\* check up to its first request: it returns at once on a local block, and,
\* on a downloader without fetch_json_post, on the AttributeError that
\* _get_feature_count turns into -1 after restoring the timeout.
CheckStart ==
  /\ gpc = "start"
  /\ Runs("download")
  /\ LET loc == CheckLocal(geom_filter, extent_rect, config)
     IN IF loc.returned
        THEN /\ verdict' = loc.v
             /\ gpc' = "returned"
             /\ UNCHANGED <<downloader, queries, original_timeout>>
        ELSE IF ~HasFetchJsonPost(downloader)
        THEN /\ original_timeout' = downloader.TIMEOUT
             /\ downloader' = [downloader EXCEPT !.TIMEOUT = original_timeout']
             /\ verdict' = CheckCount(loc.v, -1, layer_type, config)
             /\ gpc' = "returned"
             /\ UNCHANGED queries
        ELSE /\ original_timeout' = downloader.TIMEOUT
             /\ downloader' = [downloader EXCEPT !.TIMEOUT = config.count_timeout]
             /\ queries' = Append(queries,
                  Request("gate", "count",
                          GateCountParams(geom_filter, sr_wkid),
                          config.count_timeout))
             /\ verdict' = loc.v
             /\ gpc' = "count"
  /\ UNCHANGED <<conv, health, caller, config, argVars, server, dlVars, progress_cb, gui>>

\* (faulty variant of RestoreTimeout: the except branch leaves the shortened
\* timeout in place)
RestoreOnSuccessOnly(d, ok, orig) ==
  IF ok THEN [d EXCEPT !.TIMEOUT = orig] ELSE d

\* downloader.TIMEOUT = original_timeout, after the reply and in the except
\* branch alike
RestoreTimeout(d, ok, orig) == [d EXCEPT !.TIMEOUT = orig]

\* the count request comes back (or raises) and check runs to its return
CheckCountReply ==
  /\ gpc = "count"
  /\ Runs("download")
  /\ downloader' = RestoreTimeout(downloader, server.count.ok, original_timeout)
  /\ verdict' = CheckCount(verdict, GateCount(server.count), layer_type, config)
  /\ queries' = Answered(queries, server.count.ok)
  /\ gpc' = "returned"
  /\ UNCHANGED <<conv, health, caller, config, argVars, server, original_timeout, dlVars,
                 progress_cb, gui>>

-----------------------------------------------------------------------------
(* RESTDownloader.download_features *)

\* a spatial reference is <<wkid>>; <<>> stands for None
NoSr == <<>>

NoResult == [status |-> "none", features |-> <<>>, sp_ref |-> NoSr]
Returned(feats, sr) == [status |-> "returned", features |-> feats, sp_ref |-> sr]
Raised == [status |-> "raised", features |-> <<>>, sp_ref |-> NoSr]

\* _add_geom_params(params)
_add_geom_params(params, gf, wk) == params @@ GeomParams(gf, wk)

CountParams(gf, wk) ==
  _add_geom_params(
    ("where" :> <<"1=1">>) @@ ("returnCountOnly" :> "true") @@ ("f" :> "json"),
    gf, wk)

OidParams(gf, wk) ==
  _add_geom_params(
    ("where" :> <<"1=1">>) @@ ("returnIdsOnly" :> "true") @@ ("f" :> "json"),
    gf, wk)

\* oids[s:e] for batch bi
\* (faulty variant of BatchStart: every batch after the first starts one identifier
\* early)
BatchStartOverlap(b, size) == IF b = 0 THEN 0 ELSE b * size - 1

BatchStart(b, size) == b * size
BatchEnd(b, size, n) == Min(BatchStart(b, size) + size, n)
\* (faulty variant of Batch: the slices are taken from the last one down)
BatchDescending(ids, b, size) ==
  LET last == Ceil(Len(ids), size) - 1
  IN Slice(ids, BatchStart(last - b, size),
           BatchEnd(last - b, size, Len(ids)))

Batch(ids, b, size) ==
  Slice(ids, BatchStart(b, size), BatchEnd(b, size, Len(ids)))

\* f"{oid_field}>={batch[0]} AND {oid_field}<={batch[-1]}"
Where(field, batch) ==
  <<field, ">=", batch[1], "AND", field, "<=", batch[Len(batch)]>>

\* the geometry filter re-applied inline to each batch request
\* (faulty variant of BatchGeomParams: the batch requests leave out inSR)
BatchGeomParamsNoInSR(gf, wk) ==
  IF Truthy(gf) /\ "rings" \in gf.keys
  THEN ("geometry" :> gf.json) @@ ("geometryType" :> "esriGeometryPolygon")
         @@ ("spatialRel" :> "esriSpatialRelIntersects")
  ELSE IF Truthy(gf) /\ "bbox" \in gf.keys
  THEN ("geometry" :> gf.bbox) @@ ("geometryType" :> "esriGeometryEnvelope")
         @@ ("spatialRel" :> "esriSpatialRelIntersects")
  ELSE << >>

\* the geometry filter re-applied inline to each batch request
BatchGeomParams(gf, wk) ==
  IF Truthy(gf) /\ "rings" \in gf.keys
  THEN ("geometry" :> gf.json) @@ ("geometryType" :> "esriGeometryPolygon")
         @@ ("spatialRel" :> "esriSpatialRelIntersects")
         @@ (IF wk # 0 THEN ("inSR" :> str(wk)) ELSE << >>)
  ELSE IF Truthy(gf) /\ "bbox" \in gf.keys
  THEN ("geometry" :> gf.bbox) @@ ("geometryType" :> "esriGeometryEnvelope")
         @@ ("spatialRel" :> "esriSpatialRelIntersects")
         @@ (IF wk # 0 THEN ("inSR" :> str(wk)) ELSE << >>)
  ELSE << >>

BatchParams(field, batch, gf, wk) ==
  ("where" :> Where(field, batch)) @@ ("outFields" :> "*")
    @@ ("returnGeometry" :> "true") @@ ("f" :> "json")
    @@ BatchGeomParams(gf, wk)
    @@ (IF wk # 0 THEN ("outSR" :> str(wk)) ELSE << >>)

\* (faulty variant of Pct: the batches are spread over 10..100 and counted
\* from one)
PctToHundred(b, n) == 10 + ((b + 1) * 90) \div n

\* int(10 + (bi / nb) * 85), in floating point.  The float sum is below an
\* integer the exact value reaches only when 85 * bi / nb is an integer k,
\* that is bi / nb = k / 85 (the quotient bi / nb is the same float for
\* equal fractions); of k = 0..84 only k = 49 rounds low: (49 / 85) * 85 =
\* 48.99999999999999, where the code reports 58.
Pct(b, n) ==
  IF 85 * b = 49 * n THEN 58 ELSE 10 + (b * 85) \div n

\* progress_cb(pct, 100, message), when a callback was supplied
Report(log, cb, pct, tag) == IF cb THEN Append(log, <<pct, 100, tag>>) ELSE log


\* Step 1 up to the first progress callback
DlStart ==
  /\ dpc = "start"
  /\ Runs("download")
  /\ progress' = Report(progress, progress_cb, 0, "count")
  /\ dpc' = "send_count"
  /\ UNCHANGED <<conv, health, caller, downloader, config, argVars, server, gateVars,
                 progress_cb, total, oid_field, oids, nb, bi, batches,
                 all_feats, sp_ref, result, replies, gui, queries>>

\* the count request, sent with the TIMEOUT the downloader has by now
DlSendCount ==
  /\ dpc = "send_count"
  /\ Runs("download")
  /\ queries' = Append(queries,
       Request("download", "count", CountParams(geom_filter, sr_wkid),
               downloader.TIMEOUT))
  /\ dpc' = "count"
  /\ UNCHANGED <<conv, health, caller, downloader, config, argVars, server, gateVars,
                 progress_cb, total, oid_field, oids, nb, bi, batches,
                 all_feats, sp_ref, result, replies, gui, progress>>

\* reply.get('count', 0)
CountTotal(reply) == IF reply.has THEN reply.count ELSE 0

\* (faulty variant of NoFeatures: the zero test never taken)
NoFeaturesNever(t) == t < 0

\* `if total == 0`: nothing to download
NoFeatures(t) == t = 0

\* the count reply: fetch_json raises, or total = reply.get('count', 0);
\* zero returns ([], None), anything else reports 5% on the way to the
\* identifiers request
DlCountReply ==
  /\ dpc = "count"
  /\ Runs("download")
  /\ replies' = Append(replies, server.count)
  /\ IF ~server.count.ok
     THEN /\ dpc' = "raised"
          /\ result' = Raised
          /\ queries' = Answered(queries, FALSE)
          /\ UNCHANGED <<total, progress>>
     ELSE LET t == CountTotal(server.count)
          IN /\ total' = t
             /\ IF NoFeatures(t)
                THEN /\ progress' = Report(progress, progress_cb, 100, "none")
                     /\ result' = Returned(<<>>, NoSr)
                     /\ dpc' = "returned"
                     /\ queries' = Answered(queries, TRUE)
                ELSE /\ progress' = Report(progress, progress_cb, 5, "oids")
                     /\ queries' = Answered(queries, TRUE)
                     /\ dpc' = "send_ids"
                     /\ UNCHANGED result
  /\ UNCHANGED <<conv, health, caller, downloader, config, argVars, server, gateVars,
                 progress_cb, oid_field, oids, nb, bi, batches, all_feats,
                 sp_ref, gui>>

\* Step 2's request
DlSendIds ==
  /\ dpc = "send_ids"
  /\ Runs("download")
  /\ queries' = Append(queries,
       Request("download", "ids", OidParams(geom_filter, sr_wkid),
               downloader.TIMEOUT))
  /\ dpc' = "ids"
  /\ UNCHANGED <<conv, health, caller, downloader, config, argVars, server, gateVars,
                 progress_cb, total, oid_field, oids, nb, bi, batches,
                 all_feats, sp_ref, result, replies, gui, progress>>

\* replies to the identifiers request: the transport fails, or a JSON object
\* whose 'objectIds' is absent, null, or the matching identifiers in the order
\* the server lists them; 'objectIdFieldName' may be absent
Reverse(xs) == [i \in 1..Len(xs) |-> xs[Len(xs) + 1 - i]]

IdsReplies ==
  {[ok |-> FALSE, has |-> FALSE, null |-> FALSE, ids |-> <<>>, name |-> None]}
    \cup {[ok |-> TRUE, has |-> FALSE, null |-> FALSE, ids |-> <<>>, name |-> None]}
    \cup {[ok |-> TRUE, has |-> TRUE, null |-> TRUE, ids |-> <<>>, name |-> None]}
    \cup {[ok |-> TRUE, has |-> TRUE, null |-> FALSE, ids |-> l, name |-> n] :
            l \in {server.rows, Reverse(server.rows)}, n \in {None, "FID"}}

\* the first part of one loop iteration: slice and report
BatchRequest(ids, b, n, field, sofar) ==
  LET batch == Batch(ids, b, downloader.BATCH_SIZE)
  IN /\ batches' = Append(sofar, batch)
     /\ progress' = Report(progress, progress_cb, Pct(b, n), "batch")
     /\ queries' = Answered(queries, TRUE)

\* `if not oids`: return [], None
OnEmptyIds == Returned(<<>>, NoSr)

\* the request of loop iteration bi, for the batch sliced last
DlSendBatch ==
  /\ dpc = "send_batch"
  /\ Runs("download")
  /\ queries' = Append(queries,
       Request("download", "batch",
               BatchParams(oid_field, Last(batches), geom_filter, sr_wkid),
               downloader.TIMEOUT))
  /\ dpc' = "batch"
  /\ UNCHANGED <<conv, health, caller, downloader, config, argVars, server, gateVars,
                 progress_cb, total, oid_field, oids, nb, bi, batches,
                 all_feats, sp_ref, result, replies, gui, progress>>

\* Step 2's reply, and Step 3 up to the first batch's progress callback
DlIdsReply ==
  /\ dpc = "ids"
  /\ Runs("download")
  /\ \E r \in IdsReplies :
       /\ replies' = Append(replies, r)
       /\ IF ~r.ok \/ r.null
          THEN \* fetch_json raises / sorted(None) raises
               /\ dpc' = "raised"
               /\ result' = Raised
               /\ queries' = Answered(queries, r.ok)
               /\ UNCHANGED <<oid_field, oids, nb, bi, batches, all_feats,
                              sp_ref, progress>>
          ELSE LET field == IF r.name = None THEN "OBJECTID" ELSE r.name
                   ids == sorted(IF r.has THEN r.ids ELSE <<>>)
               IN /\ oid_field' = field
                  /\ oids' = ids
                  /\ IF ids = <<>>
                     THEN /\ result' = OnEmptyIds
                          /\ dpc' = result'.status
                          /\ queries' = Answered(queries, TRUE)
                          /\ UNCHANGED <<nb, bi, batches, all_feats, sp_ref,
                                         progress>>
                     ELSE LET n == Ceil(Len(ids), downloader.BATCH_SIZE)
                          IN /\ nb' = n
                             /\ all_feats' = <<>>
                             /\ sp_ref' = NoSr
                             /\ bi' = 0
                             /\ BatchRequest(ids, 0, n, field, <<>>)
                             /\ dpc' = "send_batch"
                             /\ UNCHANGED result
  /\ UNCHANGED <<conv, health, caller, downloader, config, argVars, server, gateVars,
                 progress_cb, total, gui>>

\* the rows a range predicate selects, in the server's order
InRange(rows, lo, hi) == SelectSeq(rows, LAMBDA x : lo <= x /\ x <= hi)

\* the spatial reference the reply to batch b carries, when it carries one
SrOf(b) == <<4326 + b>>

\* replies to a batch request: the transport fails, or a JSON object whose
\* 'features' is absent or lists the selected rows in either order, with or
\* without a 'spatialReference'
BatchReplies(batch, b) ==
  LET sel == InRange(server.rows, batch[1], batch[Len(batch)])
  IN {[ok |-> FALSE, has |-> FALSE, features |-> <<>>, sr |-> NoSr]}
       \cup {[ok |-> TRUE, has |-> FALSE, features |-> <<>>, sr |-> s] :
               s \in {NoSr, SrOf(b)}}
       \cup {[ok |-> TRUE, has |-> TRUE, features |-> f, sr |-> s] :
               f \in {sel, Reverse(sel)}, s \in {NoSr, SrOf(b)}}

\* (faulty variant of OnBatchFailure: the failure swallowed and the features so far
\* returned)
OnBatchFailurePartial(feats, sr) == Returned(feats, sr)

\* a batch request that raises: nothing catches it inside download_features
OnBatchFailure(feats, sr) == Raised

\* (faulty variant of NextSpRef: every reply that carries a spatial reference
\* overwrites the one kept)
NextSpRefLatest(cur, r) == IF r.sr # NoSr THEN r.sr ELSE cur

\* `if sp_ref is None and 'spatialReference' in bd: sp_ref = ...`
NextSpRef(cur, r) == IF cur = NoSr /\ r.sr # NoSr THEN r.sr ELSE cur

\* the rest of one loop iteration, then the next iteration up to its
\* progress callback, or the return
DlBatchReply ==
  /\ dpc = "batch"
  /\ Runs("download")
  /\ \E r \in BatchReplies(Batch(oids, bi, downloader.BATCH_SIZE), bi) :
       /\ replies' = Append(replies, r)
       /\ IF ~r.ok
          THEN /\ result' = OnBatchFailure(all_feats, sp_ref)
               /\ dpc' = result'.status
               /\ queries' = Answered(queries, FALSE)
               /\ UNCHANGED <<bi, batches, all_feats, sp_ref, progress>>
          ELSE LET feats == all_feats \o (IF r.has THEN r.features ELSE <<>>)
                   sr == NextSpRef(sp_ref, r)
               IN /\ all_feats' = feats
                  /\ sp_ref' = sr
                  /\ IF bi + 1 < nb
                     THEN /\ bi' = bi + 1
                          /\ BatchRequest(oids, bi + 1, nb, oid_field, batches)
                          /\ dpc' = "send_batch"
                          /\ UNCHANGED result
                     ELSE /\ progress' = Report(progress, progress_cb, 100, "done")
                          /\ result' = Returned(feats, sr)
                          /\ dpc' = "returned"
                          /\ queries' = Answered(queries, TRUE)
                          /\ UNCHANGED <<bi, batches>>
  /\ UNCHANGED <<conv, health, caller, downloader, config, argVars, server, gateVars,
                 progress_cb, total, oid_field, oids, nb, gui>>

-----------------------------------------------------------------------------
(* GeoGrabDialog._on_download *)

MaxItems == 2

GuiIdle ==
  [pc |-> "idle", n |-> 0, idx |-> 0, reply |-> "none", downloads |-> 0,
   success_count |-> 0, skipped_by_safety |-> 0, events |-> 0,
   stack |-> <<>>, saved |-> <<>>, tally |-> "none"]

\* what _build_geom_filter returns: (gf, wk, ext_wgs)
GuiExtents == {ExtentNone, <<0, 0, 1, 3>>, <<0, 0, 8, 8>>, <<16, 8, 0, 0>>}

_build_geom_filter ==
  {<<FilterBbox, 4326, e>> : e \in GuiExtents}
    \cup {<<FilterNone, 0, ExtentNone>>}
    \cup {<<FilterRings, 4326, e>> : e \in GuiExtents}

GuiLayerTypes == {"parcels", "zoning"}

\* what the service holds for one layer of the dialog's run
GuiServers ==
  {[count |-> c, rows |-> <<>>] : c \in {CountFail, CountOf(0), CountOf(2)}}
    \cup {[count |-> CountOf(2), rows |-> <<1, 2>>]}

IdleLocals ==
  /\ dpc' = "idle"
  /\ total' = 0
  /\ oid_field' = None
  /\ oids' = <<>>
  /\ nb' = 0
  /\ bi' = 0
  /\ batches' = <<>>
  /\ all_feats' = <<>>
  /\ sp_ref' = NoSr
  /\ result' = NoResult
  /\ progress' = <<>>
  /\ replies' = <<>>

\* get_service_layers and get_layer_info: fetch_json with f=json and the
\* TIMEOUT the downloader has at that moment
MetaRequest(kind) == Request("gui", kind, "f" :> "json", downloader.TIMEOUT)

\* the item is over with its last line of the log written (_log ends in
\* processEvents); the counter it ended on, if any, has not been raised yet
EndItem(t) == gui' = [gui EXCEPT !.pc = "end", !.tally = t]

\* the head of one loop iteration: the item's data and the header line of
\* the log; an item without layer_id is searched for by its hint
GuiItemHead ==
  /\ gui.pc = "loop"
  /\ gui.idx < gui.n
  /\ Runs("download")
  /\ \E hinted \in BOOLEAN, lt \in GuiLayerTypes, srv \in GuiServers :
       /\ gui' = [gui EXCEPT !.pc = IF hinted THEN "search" ELSE "info",
                             !.reply = "none", !.downloads = 0]
       /\ layer_type' = lt
       /\ server' = srv
  /\ geom_filter' = FilterNone
  /\ sr_wkid' = 0
  /\ extent_rect' = ExtentNone
  /\ queries' = <<>>
  /\ verdict' = SafetyVerdict
  /\ gpc' = "idle"
  /\ IdleLocals
  /\ UNCHANGED <<conv, health, caller, downloader, config, original_timeout,
                 progress_cb>>

\* self.downloader.get_service_layers(svc_url)
GuiSearchSend ==
  /\ gui.pc = "search"
  /\ Runs("download")
  /\ queries' = Append(queries, MetaRequest("root"))
  /\ gui' = [gui EXCEPT !.pc = "search_wait"]
  /\ UNCHANGED <<conv, health, caller, downloader, config, argVars, server,
                 gateVars, dlVars, progress_cb>>

\* the service's layers are in, or the request raised: a layer matching the
\* hint is found, or the item is skipped
GuiSearchReply ==
  /\ gui.pc = "search_wait"
  /\ \E o \in {"raised", "no match", "found"} :
       /\ queries' = Answered(queries, o # "raised")
       /\ IF o = "found" THEN gui' = [gui EXCEPT !.pc = "info"] ELSE EndItem("none")
  /\ UNCHANGED <<conv, health, caller, downloader, config, argVars, server,
                 gateVars, dlVars, progress_cb>>

\* linfo = self.downloader.get_layer_info(svc_url, layer_id)
GuiInfoSend ==
  /\ gui.pc = "info"
  /\ Runs("download")
  /\ queries' = Append(queries, MetaRequest("info"))
  /\ gui' = [gui EXCEPT !.pc = "info_wait"]
  /\ UNCHANGED <<conv, health, caller, downloader, config, argVars, server,
                 gateVars, dlVars, progress_cb>>

\* the arguments of check are in place
CallCheck(f) ==
  /\ geom_filter' = f[1]
  /\ sr_wkid' = f[2]
  /\ extent_rect' = f[3]
  /\ gpc' = "start"
  /\ gui' = [gui EXCEPT !.pc = "check"]

\* the layer's metadata is in, or the request raised and the item is left;
\* then _build_geom_filter: with a clip layer that is gone it returns
\* (None, None, None) at once, otherwise it asks for the metadata again
GuiInfoReply ==
  /\ gui.pc = "info_wait"
  /\ \E ok \in BOOLEAN, gone \in BOOLEAN :
       IF ~ok
       THEN /\ queries' = Answered(queries, FALSE)
            /\ EndItem("none")
            /\ UNCHANGED <<geom_filter, sr_wkid, extent_rect, gpc>>
       ELSE IF gone
       THEN /\ queries' = Answered(queries, TRUE)
            /\ CallCheck(<<FilterNone, 0, ExtentNone>>)
       ELSE /\ queries' = Append(Answered(queries, TRUE), MetaRequest("info"))
            /\ gui' = [gui EXCEPT !.pc = "filter_wait"]
            /\ UNCHANGED <<geom_filter, sr_wkid, extent_rect, gpc>>
  /\ UNCHANGED <<conv, health, caller, downloader, config, layer_type, server,
                 verdict, original_timeout, dlVars, progress_cb>>

\* the second metadata reply (a failure is swallowed: wk = 4326), the rest
\* of _build_geom_filter (a transform that raises leaves the item), and the
\* log line before the safety check
GuiFilterReply ==
  /\ gui.pc = "filter_wait"
  /\ \E ok \in BOOLEAN, raises \in BOOLEAN,
        f \in {t \in _build_geom_filter : ~t[1].isNone} :
       /\ queries' = Answered(queries, ok)
       /\ IF raises
          THEN EndItem("none") /\ UNCHANGED <<geom_filter, sr_wkid, extent_rect, gpc>>
          ELSE CallCheck(f)
  /\ UNCHANGED <<conv, health, caller, downloader, config, layer_type, server,
                 verdict, original_timeout, dlVars, progress_cb>>

\* the call of download_features
CallDownload == dpc' = "start"

\* SafetyVerdict.is_blocked and SafetyVerdict.needs_confirmation
is_blocked(v) == v.action = "block"

\* (faulty variant of needs_confirmation: the confirmation never asked for)
needs_confirmation_never(v) == FALSE

needs_confirmation(v) == v.action = "warn"

\* the verdict is in: a block is shown and logged, a warning asks the user,
\* and anything else goes on to download_features
GuiVerdict ==
  /\ gui.pc = "check"
  /\ Runs("download")
  /\ gpc = "returned"
  /\ IF is_blocked(verdict)
     THEN /\ EndItem("skip")
          /\ UNCHANGED dpc
     ELSE IF needs_confirmation(verdict)
     THEN /\ gui' = [gui EXCEPT !.pc = "confirm"]
          /\ UNCHANGED dpc
     ELSE /\ gui' = [gui EXCEPT !.pc = "download", !.downloads = @ + 1]
          /\ CallDownload
  /\ UNCHANGED <<conv, health, caller, downloader, config, argVars, server, queries,
                 gateVars, progress_cb, total, oid_field, oids, nb, bi,
                 batches, all_feats, sp_ref, result, progress, replies>>

\* the answer to the confirmation dialog, and the line of the log that
\* follows either answer
GuiConfirm ==
  /\ gui.pc = "confirm"
  /\ Runs("download")
  /\ \E reply \in {"Yes", "No"} :
       gui' = [gui EXCEPT !.reply = reply,
                          !.pc = IF reply # "Yes" THEN "end" ELSE "confirmed",
                          !.tally = IF reply # "Yes" THEN "skip" ELSE @]
  /\ UNCHANGED <<conv, health, caller, downloader, config, argVars, server, queries,
                 gateVars, dlVars, progress_cb>>

\* after "User confirmed": download_features is called
GuiCallDownload ==
  /\ gui.pc = "confirmed"
  /\ Runs("download")
  /\ gui' = [gui EXCEPT !.pc = "download", !.downloads = @ + 1]
  /\ CallDownload
  /\ UNCHANGED <<conv, health, caller, downloader, config, argVars, server, queries,
                 gateVars, progress_cb, total, oid_field, oids, nb, bi,
                 batches, all_feats, sp_ref, result, progress, replies>>

\* download_features returned or raised; features found are converted,
\* saved and logged, anything else leaves the layer without output
GuiDownloaded ==
  /\ gui.pc = "download"
  /\ Runs("download")
  /\ dpc \in {"returned", "raised"}
  /\ \E saved \in BOOLEAN :
       EndItem(IF result.status = "returned" /\ result.features # <<>>
                  /\ saved
               THEN "success" ELSE "none")
  /\ UNCHANGED <<conv, health, caller, downloader, config, argVars, server, queries,
                 gateVars, dlVars, progress_cb>>

\* skipped_by_safety += 1 or success_count += 1 where the item ended on one,
\* and the loop goes to its next item
GuiNextItem ==
  /\ gui.pc = "end"
  /\ Runs("download")
  /\ gui' = [gui EXCEPT
               !.pc = "loop", !.idx = @ + 1, !.tally = "none",
               !.skipped_by_safety = IF gui.tally = "skip" THEN @ + 1 ELSE @,
               !.success_count = IF gui.tally = "success" THEN @ + 1 ELSE @]
  /\ UNCHANGED <<conv, health, caller, downloader, config, argVars, server, queries,
                 gateVars, dlVars, progress_cb>>

\* the loop is over: the summary is shown
GuiFinish ==
  /\ gui.pc = "loop"
  /\ gui.idx = gui.n
  /\ Runs("download")
  /\ gui' = [gui EXCEPT !.pc = "finished", !.stack = Front(@)]
  /\ UNCHANGED <<conv, health, caller, downloader, config, argVars, server, queries,
                 gateVars, dlVars, progress_cb>>

-----------------------------------------------------------------------------
(* RESTDownloader.to_qgis_layer and _convert_geometry *)

\* everything the conversion and the health check leave alone
programVars ==
  <<caller, config, argVars, server, gateVars, dlVars, progress_cb, gui>>

\* an ESRI JSON geometry: null (or no 'geometry' key), or an object with
\* some of the keys rings, paths, points, x, y.  body tells what the list
\* under rings / paths / points holds: nothing ("empty", []), well-formed coordinates
\* ("ok"), an entry that is no coordinate pair ("malformed": subscripting it
\* raises), or parts without any coordinate ("degenerate", [[]])
GeomNull == [isNone |-> TRUE, keys |-> {}, body |-> "empty"]
GeomObject(keys, body) == [isNone |-> FALSE, keys |-> keys, body |-> body]

ListBodies == {"empty", "ok", "malformed", "degenerate"}

Geometries ==
  {GeomNull, GeomObject({}, "empty")}
    \cup {GeomObject({"rings"}, b) : b \in ListBodies}
    \cup {GeomObject({"paths"}, b) : b \in ListBodies}
    \cup {GeomObject({"x", "y"}, "empty"), GeomObject({"x"}, "empty")}
    \cup {GeomObject({"points"}, "ok")}

\* layer_info.get('geometryType', 'esriGeometryPolygon')
GeometryTypes ==
  {None, "esriGeometryPoint", "esriGeometryMultipoint",
   "esriGeometryPolyline", "esriGeometryPolygon"}

egt(geometryType) ==
  IF geometryType = None THEN "esriGeometryPolygon" ELSE geometryType

\* QgsGeometry.fromWkt on the text built from a list: a geometry for
\* well-formed coordinates; for parts without coordinates the parser gives a
\* null geometry or an empty one
fromWkt(body) == IF body = "degenerate" THEN {"null", "geom"} ELSE {"geom"}

\* geom_json.get(key, [])
Payload(gj, key) == IF key \in gj.keys THEN gj.body ELSE "empty"

\* the branch shared by polygons ('rings') and polylines ('paths')
ConvertList(body) ==
  IF body = "empty" THEN {"None"}
  ELSE IF body = "malformed" THEN {"raise"}
  ELSE fromWkt(body)

\* _convert_geometry(esri_type, geom_json): the outcomes it can have, "geom"
\* (a geometry), "null" (a null QgsGeometry), "None" or "raise"
_convert_geometry(esri_type, gj) ==
  IF esri_type = "esriGeometryPolygon" THEN ConvertList(Payload(gj, "rings"))
  ELSE IF esri_type = "esriGeometryPolyline"
  THEN ConvertList(Payload(gj, "paths"))
  ELSE IF esri_type = "esriGeometryPoint" THEN {"geom"}
  ELSE {"None"}

\* `if geom and not geom.isNull()`
Usable(outcome) == outcome = "geom"

\* skipped += 1; continue
Skip(skipped, outcome) == skipped + 1

\* the 'attributes' member of a feature: missing, a JSON object or null
Attributes == {"absent", "object", "null"}

\* at = fj.get('attributes', {}): the default stands in only for a missing
\* member, a null one gives None
at(fj) == IF fj.attributes = "absent" THEN "object" ELSE fj.attributes

\* layer_info.get('fields', []), each field by its name
FieldLists == {<<>>, <<"OBJECTID">>}

\* `for fn in fnames: v = at.get(fn)`, outside every try: with a field to
\* read and at = None the first at.get raises AttributeError
AttributeStepRaises(fnames, a) == fnames # <<>> /\ a = "null"

ConvIdle ==
  [pc |-> "idle", geometryType |-> None, fields |-> <<>>, fnames |-> <<>>,
   features |-> <<>>, i |-> 0, new_feats |-> <<>>, skipped |-> 0,
   outcomes |-> <<>>, layer |-> None]

\* to_qgis_layer up to the loop: no features, no layer; otherwise fnames
\* takes the name of every field of layer_info
ConvStart ==
  /\ conv.pc = "start"
  /\ conv' = IF conv.features = <<>>
             THEN [conv EXCEPT !.pc = "returned", !.layer = None]
             ELSE [conv EXCEPT !.pc = "loop", !.fnames = conv.fields,
                               !.i = 0, !.new_feats = <<>>, !.skipped = 0]
  /\ UNCHANGED <<programVars, downloader, queries, health>>

\* one iteration of `for fj in features`: a feature without a usable
\* geometry is skipped and counted; one with a geometry has its attributes
\* read field by field and is appended, or the read raises and to_qgis_layer
\* ends there with the exception, returning no layer
ConvFeature ==
  /\ conv.pc = "loop"
  /\ conv.i < Len(conv.features)
  /\ LET fj == conv.features[conv.i + 1]
         gj == fj.geometry
     IN IF gj.isNone
        THEN conv' = [conv EXCEPT !.i = @ + 1,
                                  !.skipped = Skip(@, "None"),
                                  !.outcomes = Append(@, "no geometry")]
        ELSE \E o \in _convert_geometry(egt(conv.geometryType), gj) :
               IF Usable(o)
               THEN IF AttributeStepRaises(conv.fnames, at(fj))
                    THEN conv' = [conv EXCEPT !.pc = "raised"]
                    ELSE conv' = [conv EXCEPT !.i = @ + 1,
                                              !.new_feats = Append(@, fj),
                                              !.outcomes = Append(@, o)]
               ELSE conv' = [conv EXCEPT !.i = @ + 1,
                                         !.skipped = Skip(@, o),
                                         !.outcomes = Append(@, o)]
  /\ UNCHANGED <<programVars, downloader, queries, health>>

\* prov.addFeatures(new_feats) and the return of the layer
ConvFinish ==
  /\ conv.pc = "loop"
  /\ conv.i = Len(conv.features)
  /\ conv' = [conv EXCEPT !.pc = "returned",
                          !.layer = [features |-> conv.new_feats]]
  /\ UNCHANGED <<programVars, downloader, queries, health>>

-----------------------------------------------------------------------------
(* RESTDownloader.check_service_health *)

MaxUrls == 2
MaxLayers == 2

\* what fetch_json does on the service root: it raises (network error,
\* timeout, body that is no JSON), or returns the parsed body: a value that
\* is no object, or an object whose 'layers' is absent, null or a list
FetchErrors == {"network", "timeout", "not_json"}

HealthReplies ==
  {[ok |-> FALSE, error |-> e, isDict |-> FALSE, has |-> FALSE,
    null |-> FALSE, layers |-> 0] : e \in FetchErrors}
    \cup {[ok |-> TRUE, error |-> None, isDict |-> d, has |-> FALSE,
           null |-> FALSE, layers |-> 0] : d \in BOOLEAN}
    \cup {[ok |-> TRUE, error |-> None, isDict |-> TRUE, has |-> TRUE,
           null |-> TRUE, layers |-> 0]}
    \cup {[ok |-> TRUE, error |-> None, isDict |-> TRUE, has |-> TRUE,
           null |-> FALSE, layers |-> n] : n \in 0..MaxLayers}

\* int((time.time() - start) * 1000)
Elapsed == {0, 40}

Alive(ms, n) ==
  [raised |-> FALSE, alive |-> TRUE, response_ms |-> ms, layer_count |-> n,
   error |-> None]

\* (faulty variant of OnHealthFailure: the exception is not caught)
OnHealthFailureRaises(ms, e) ==
  [raised |-> TRUE, alive |-> FALSE, response_ms |-> ms, layer_count |-> 0,
   error |-> e]

\* the except branch: every exception becomes a result
OnHealthFailure(ms, e) ==
  [raised |-> FALSE, alive |-> FALSE, response_ms |-> ms, layer_count |-> 0,
   error |-> e]

\* the result for a reply: data.get on a value that is no object and
\* len(None) raise inside the try block as well
HealthResult(r, ms) ==
  IF ~r.ok THEN OnHealthFailure(ms, r.error)
  ELSE IF ~r.isDict THEN OnHealthFailure(ms, "AttributeError")
  ELSE IF r.has /\ r.null THEN OnHealthFailure(ms, "TypeError")
  ELSE Alive(ms, IF r.has THEN r.layers ELSE 0)

HealthIdle ==
  [pc |-> "idle", n |-> 0, idx |-> 0, timeout |-> 0, old_timeout |-> 0,
   before |-> 0, replies |-> <<>>, cache |-> <<>>]

\* the timeout argument: the dialog passes timeout=5, the default is 10
HealthTimeouts == IF caller = "gui" THEN {5} ELSE {5, 10}

\* the replies drawn in the dialog's runs: one failure and one service root
HealthAnswers ==
  IF caller = "gui"
  THEN {r \in HealthReplies :
          \/ ~r.ok /\ r.error = "timeout"
          \/ r.ok /\ r.has /\ ~r.null /\ r.layers = 1}
  ELSE HealthReplies

HealthElapsed == IF caller = "gui" THEN {0} ELSE Elapsed

\* check_service_health(url, timeout) up to the request
HealthStart ==
  /\ health.pc = "loop"
  /\ health.idx < health.n
  /\ Runs("health")
  /\ \E timeout \in HealthTimeouts :
       /\ health' = [health EXCEPT !.pc = "fetch", !.timeout = timeout,
                                   !.old_timeout = downloader.TIMEOUT,
                                   !.before = downloader.TIMEOUT]
       /\ downloader' = [downloader EXCEPT !.TIMEOUT = timeout]
       /\ queries' = Append(queries,
            Request("health", "root", "f" :> "json", timeout))
  /\ UNCHANGED <<programVars, conv>>

\* fetch_json returns or raises, and check_service_health returns its result
HealthReply ==
  /\ health.pc = "fetch"
  /\ Runs("health")
  /\ \E r \in HealthAnswers, ms \in HealthElapsed :
       /\ downloader' = IF r.ok
                        THEN [downloader EXCEPT !.TIMEOUT = health.old_timeout]
                        ELSE downloader
       /\ queries' = Answered(queries, r.ok)
       /\ health' = [health EXCEPT !.pc = "loop", !.idx = @ + 1,
                                   !.replies = Append(@, r),
                                   !.cache = Append(@, HealthResult(r, ms))]
  /\ UNCHANGED <<programVars, conv>>

\* the health loop returns into the handler it ran inside, if any: a health
\* loop that was standing still below takes its locals back; the loop of
\* __init__ leaves the dialog idle in the event loop
ReturnFromHealth ==
  LET below == Front(gui.stack) IN
  /\ gui' = [gui EXCEPT
               !.stack = below,
               !.pc = IF @ = "construct" THEN "idle" ELSE @,
               !.saved = IF HasHealth(below) THEN Front(@) ELSE @]
  /\ health' = IF HasHealth(below)
               THEN Last(gui.saved)
               ELSE [health EXCEPT !.pc = "finished"]

\* every service was checked
HealthFinish ==
  /\ health.pc = "loop"
  /\ health.idx = health.n
  /\ Runs("health")
  /\ IF caller = "gui"
     THEN ReturnFromHealth
     ELSE health' = [health EXCEPT !.pc = "finished"] /\ UNCHANGED gui
  /\ UNCHANGED <<caller, config, argVars, server, gateVars, dlVars,
                 progress_cb, conv, downloader, queries>>

-----------------------------------------------------------------------------
(* GeoGrabDialog: slots that QApplication.processEvents delivers *)

MaxEvents == 1

\* the services of the dialog's region whose _health_cache entry is None
MaxStale == 1

\* _on_download is inside a processEvents call: after a line of the log
\* (_log: the two lines before the loop, the header of an item, the lines
\* around check, after the confirmation, at the end of an item, and
\* "Complete" after the loop) and after a progress report (_prog).  The
\* message boxes are modal to the dialog, so no click reaches its buttons
\* while one is open.
YieldPoint ==
  \/ gui.pc = "loop" /\ gui.idx \in {0, gui.n}
  \/ gui.pc \in {"search", "info", "confirmed", "end"}
  \/ gui.pc = "check" /\ gpc \in {"start", "returned"}
  \/ gui.pc = "download"
       /\ progress_cb
       /\ \/ dpc \in {"send_count", "send_ids", "send_batch"}
          \/ dpc = "returned" /\ progress # <<>>
               /\ Last(progress)[1] = 100

\* the dialog takes an event: it is idle in the event loop (not before
\* __init__ returned: it is not shown yet), or the running handler is inside
\* processEvents, which the health loop calls before each check and a
\* connect slot before its request and, in _log, after it
AtYield ==
  /\ caller = "gui"
  /\ gui.pc # "construct"
  /\ \/ Top(gui.stack) \in {"idle", "connect", "connected"}
     \/ Top(gui.stack) = "download" /\ YieldPoint
     \/ Top(gui.stack) = "health" /\ health.pc = "loop"
          /\ health.idx < health.n

\* the Download button (enabled whenever _on_download is not running; one
\* click per run): the checked items are collected and the loop starts
GuiClickDownload ==
  /\ AtYield
  /\ gui.pc = "idle"
  /\ \E k \in 1..MaxItems :
       gui' = [gui EXCEPT !.pc = "loop", !.n = k,
                          !.stack = Append(@, "download")]
  /\ UNCHANGED <<conv, health, caller, downloader, config, argVars, server,
                 queries, gateVars, dlVars, progress_cb>>

\* Re-detect (btn_refresh -> _auto_detect) or a change of region
\* (_on_region_changed): _populate_quick_layers checks the health of the
\* services it has no result for yet, k of them; the locals of a health loop
\* it runs inside are kept for that loop's return
GuiRefresh ==
  /\ AtYield
  /\ gui.events < MaxEvents
  /\ \E k \in 1..MaxStale :
       health' = [HealthIdle EXCEPT !.pc = "loop", !.n = k]
  /\ gui' = [gui EXCEPT
               !.events = @ + 1,
               !.stack = Append(@, "health"),
               !.saved = IF HasHealth(gui.stack) THEN Append(@, health)
                         ELSE @]
  /\ UNCHANGED <<conv, caller, downloader, config, argVars, server, queries,
                 gateVars, dlVars, progress_cb>>

\* Connect on a listed service (_on_browse_connect, _on_svc_connect) or a
\* directory chosen in the service combo (_on_browse_service_changed ->
\* _crawl_directory): the slot logs and calls processEvents
GuiConnect ==
  /\ AtYield
  /\ gui.events < MaxEvents
  /\ gui' = [gui EXCEPT !.events = @ + 1, !.stack = Append(@, "connect")]
  /\ UNCHANGED <<conv, health, caller, downloader, config, argVars, server,
                 queries, gateVars, dlVars, progress_cb>>

\* the slot's request (get_service_layers, get_directory_services:
\* fetch_json with the TIMEOUT the downloader has), and the line of the log
\* that tells what was found or what was raised
GuiConnectFetch ==
  /\ caller = "gui"
  /\ Top(gui.stack) = "connect"
  /\ \E ok \in BOOLEAN :
       queries' = Answered(Append(queries, MetaRequest("root")), ok)
  /\ gui' = [gui EXCEPT !.stack = Append(Front(@), "connected")]
  /\ UNCHANGED <<conv, health, caller, downloader, config, argVars, server,
                 gateVars, dlVars, progress_cb>>

\* the slot returns into the handler it ran inside, if any
GuiConnectReturn ==
  /\ caller = "gui"
  /\ Top(gui.stack) = "connected"
  /\ gui' = [gui EXCEPT !.stack = Front(@)]
  /\ UNCHANGED <<conv, health, caller, downloader, config, argVars, server,
                 queries, gateVars, dlVars, progress_cb>>

-----------------------------------------------------------------------------
(* Specifications *)

MaxLen == 3
MaxBatch == 2

\* the identifiers a layer can hold: every non-decreasing list of at most
\* MaxLen identifiers out of 1..MaxLen (repeated identifiers included)
RowLists ==
  UNION {{r \in [1..n -> 1..MaxLen] : \A i \in 1..(n - 1) : r[i] <= r[i + 1]} :
           n \in 0..MaxLen}

GateDownloaders ==
  {RESTDownloader(0, 0), PostDownloader(60), PostDownloader(120)}

\* SafetyChecker(config).check(downloader, url, id, geom_filter, sr_wkid,
\* layer_type, extent_rect) on any arguments
GateInit ==
  /\ caller = "gate"
  /\ downloader \in GateDownloaders
  /\ config \in Configs
  /\ geom_filter \in Filters
  /\ sr_wkid \in Wkids
  /\ layer_type \in LayerTypes
  /\ extent_rect \in ExtentRects
  /\ server \in {[count |-> c, rows |-> <<>>] : c \in GateCountReplies}
  /\ queries = <<>>
  /\ gpc = "start"
  /\ verdict = SafetyVerdict
  /\ original_timeout = 0
  /\ dpc = "idle"
  /\ progress_cb = FALSE
  /\ total = 0
  /\ oid_field = None
  /\ oids = <<>>
  /\ nb = 0
  /\ bi = 0
  /\ batches = <<>>
  /\ all_feats = <<>>
  /\ sp_ref = NoSr
  /\ result = NoResult
  /\ progress = <<>>
  /\ replies = <<>>
  /\ gui = GuiIdle
  /\ conv = ConvIdle
  /\ health = HealthIdle

GateNext == CheckStart \/ CheckCountReply

SpecGate == GateInit /\ [][GateNext]_vars

\* RESTDownloader(batch_size).download_features(url, id, geom_filter,
\* sr_wkid, progress_cb) on any arguments
DownloadInit ==
  /\ caller = "download"
  /\ downloader \in {RESTDownloader(b, 0) : b \in 0..MaxBatch}
  /\ config = DefaultConfig
  /\ geom_filter \in Filters
  /\ sr_wkid \in Wkids
  /\ layer_type = None
  /\ extent_rect = ExtentNone
  /\ server \in {[count |-> c, rows |-> r] :
                   r \in RowLists,
                   c \in {CountFail, CountMissing, CountOf(0), CountOf(1)}}
  /\ queries = <<>>
  /\ gpc = "idle"
  /\ verdict = SafetyVerdict
  /\ original_timeout = 0
  /\ dpc = "start"
  /\ progress_cb \in BOOLEAN
  /\ total = 0
  /\ oid_field = None
  /\ oids = <<>>
  /\ nb = 0
  /\ bi = 0
  /\ batches = <<>>
  /\ all_feats = <<>>
  /\ sp_ref = NoSr
  /\ result = NoResult
  /\ progress = <<>>
  /\ replies = <<>>
  /\ gui = GuiIdle
  /\ conv = ConvIdle
  /\ health = HealthIdle

DownloadNext ==
  \/ DlStart
  \/ DlSendCount
  \/ DlCountReply
  \/ DlSendIds
  \/ DlIdsReply
  \/ DlSendBatch
  \/ DlBatchReply

SpecDownload == DownloadInit /\ [][DownloadNext]_vars

\* GeoGrabDialog(): RESTDownloader(), SafetyChecker(), and either __init__
\* returned with no region detected and the dialog is idle, or its last
\* statement, _auto_detect(), is about to check the health of the detected
\* region's services
GuiInit ==
  /\ caller = "gui"
  /\ downloader = RESTDownloader(0, 0)
  /\ config = DefaultConfig
  /\ geom_filter = FilterNone
  /\ sr_wkid = 0
  /\ layer_type = None
  /\ extent_rect = ExtentNone
  /\ server = [count |-> CountFail, rows |-> <<>>]
  /\ queries = <<>>
  /\ gpc = "idle"
  /\ verdict = SafetyVerdict
  /\ original_timeout = 0
  /\ dpc = "idle"
  /\ progress_cb = TRUE
  /\ total = 0
  /\ oid_field = None
  /\ oids = <<>>
  /\ nb = 0
  /\ bi = 0
  /\ batches = <<>>
  /\ all_feats = <<>>
  /\ sp_ref = NoSr
  /\ result = NoResult
  /\ progress = <<>>
  /\ replies = <<>>
  /\ \/ gui = GuiIdle /\ health = HealthIdle
     \/ /\ gui = [GuiIdle EXCEPT !.pc = "construct", !.stack = <<"health">>]
        /\ health \in {[HealthIdle EXCEPT !.pc = "loop", !.n = k] :
                         k \in 1..MaxStale}
  /\ conv = ConvIdle

\* (the dialog's downloader is a RESTDownloader, so check never has a count
\* request in flight here)
GuiNext ==
  \/ HealthStart
  \/ HealthReply
  \/ HealthFinish
  \/ GuiClickDownload
  \/ GuiItemHead
  \/ GuiSearchSend
  \/ GuiSearchReply
  \/ GuiInfoSend
  \/ GuiInfoReply
  \/ GuiFilterReply
  \/ CheckStart
  \/ GuiVerdict
  \/ GuiConfirm
  \/ GuiCallDownload
  \/ DlStart
  \/ DlSendCount
  \/ DlCountReply
  \/ DlSendIds
  \/ DlIdsReply
  \/ DlSendBatch
  \/ DlBatchReply
  \/ GuiDownloaded
  \/ GuiNextItem
  \/ GuiFinish
  \/ GuiRefresh
  \/ GuiConnect
  \/ GuiConnectFetch
  \/ GuiConnectReturn

SpecGui == GuiInit /\ [][GuiNext]_vars

MaxFeats == 2

\* the feature lists handed to to_qgis_layer: feature k has OBJECTID k
FeatureLists ==
  UNION {{[k \in 1..n |-> [id |-> k, geometry |-> g[k],
                           attributes |-> a[k]]] :
            g \in [1..n -> Geometries], a \in [1..n -> Attributes]} :
           n \in 0..MaxFeats}

\* RESTDownloader().to_qgis_layer(features, spatial_ref, layer_info)
ConvertInit ==
  /\ caller = "convert"
  /\ downloader = RESTDownloader(0, 0)
  /\ config = DefaultConfig
  /\ geom_filter = FilterNone
  /\ sr_wkid = 0
  /\ layer_type = None
  /\ extent_rect = ExtentNone
  /\ server = [count |-> CountFail, rows |-> <<>>]
  /\ queries = <<>>
  /\ gpc = "idle"
  /\ verdict = SafetyVerdict
  /\ original_timeout = 0
  /\ dpc = "idle"
  /\ progress_cb = FALSE
  /\ total = 0
  /\ oid_field = None
  /\ oids = <<>>
  /\ nb = 0
  /\ bi = 0
  /\ batches = <<>>
  /\ all_feats = <<>>
  /\ sp_ref = NoSr
  /\ result = NoResult
  /\ progress = <<>>
  /\ replies = <<>>
  /\ gui = GuiIdle
  /\ conv \in {[ConvIdle EXCEPT !.pc = "start", !.geometryType = t,
                                !.fields = fl, !.features = fs] :
                 t \in GeometryTypes, fl \in FieldLists,
                 fs \in FeatureLists}
  /\ health = HealthIdle

ConvertNext == ConvStart \/ ConvFeature \/ ConvFinish

SpecConvert == ConvertInit /\ [][ConvertNext]_vars

\* RESTDownloader(timeout=t), then check_service_health on each service
HealthInit ==
  /\ caller = "health"
  /\ downloader \in {RESTDownloader(0, 0), RESTDownloader(0, 120)}
  /\ config = DefaultConfig
  /\ geom_filter = FilterNone
  /\ sr_wkid = 0
  /\ layer_type = None
  /\ extent_rect = ExtentNone
  /\ server = [count |-> CountFail, rows |-> <<>>]
  /\ queries = <<>>
  /\ gpc = "idle"
  /\ verdict = SafetyVerdict
  /\ original_timeout = 0
  /\ dpc = "idle"
  /\ progress_cb = FALSE
  /\ total = 0
  /\ oid_field = None
  /\ oids = <<>>
  /\ nb = 0
  /\ bi = 0
  /\ batches = <<>>
  /\ all_feats = <<>>
  /\ sp_ref = NoSr
  /\ result = NoResult
  /\ progress = <<>>
  /\ replies = <<>>
  /\ gui = GuiIdle
  /\ conv = ConvIdle
  /\ health \in {[HealthIdle EXCEPT !.pc = "loop", !.n = k] : k \in 1..MaxUrls}

HealthNext == HealthStart \/ HealthReply \/ HealthFinish

SpecHealth == HealthInit /\ [][HealthNext]_vars

-----------------------------------------------------------------------------
(* Properties *)

RECURSIVE Flatten(_)
Flatten(xss) == IF xss = <<>> THEN <<>> ELSE Head(xss) \o Flatten(Tail(xss))

CheckReturned == gpc = "returned"

\* the extent rule of Check 1 does not block
ExtentBelow(limit) ==
  extent_rect = ExtentNone \/ ExtentArea(extent_rect) < limit

\* the count request raised: fetch_json_post failed, or the downloader has
\* no such method
CountQueryFailed ==
  \/ ~HasFetchJsonPost(downloader)
  \/ queries # <<>> /\ Last(queries).status = "failed"

\* C1: check called with geom_filter = None returns 'block', whatever the
\* extent, the layer type, the configuration and the service's behaviour.
C1_NoFilterBlocks ==
  (CheckReturned /\ geom_filter.isNone) => verdict.action = "block"

C1_Witness ==
  /\ CheckReturned
  /\ geom_filter.isNone
  /\ extent_rect # ExtentNone
  /\ ExtentArea(extent_rect) < config.warn_extent_sq_deg
  /\ HasFetchJsonPost(downloader)
  /\ server.count = CountOf(0)
  /\ verdict.messages = <<"no_filter">>

\* C2: in the dialog's loop download_features is called for a layer only once
\* check has returned for it with 'proceed', or with 'warn' and the user
\* answered Yes; after a 'block' or a declined warning it is never called
\* for that layer.
C2_DownloadOnlyAfterPass ==
  /\ (dpc # "idle" \/ gui.downloads > 0) =>
       /\ gpc = "returned"
       /\ \/ verdict.action = "proceed"
          \/ verdict.action = "warn" /\ gui.reply = "Yes"
  /\ (gui.pc \in {"check", "confirm", "confirmed"} \/ gui.reply = "No"
        \/ (gpc = "returned" /\ verdict.action = "block")) =>
       (dpc = "idle" /\ gui.downloads = 0)

C2_Witness ==
  /\ gui.idx = 1
  /\ dpc = "batch"
  /\ verdict.action = "warn"
  /\ gui.reply = "Yes"
  /\ gui.downloads = 1
  /\ gui.skipped_by_safety = 1

\* some call of check passes this filter (returns a verdict other than
\* 'block')
GateCanPass(gf) ==
  \E d \in {RESTDownloader(0, 0), PostDownloader(60)}, ext \in ExtentRects,
     r \in GateCountReplies :
    check(d, DefaultConfig, gf, None, ext, r).action # "block"

\* C3: for every geom_filter that check does not block, every request
\* download_features sends with that filter (count, identifiers, batches)
\* carries geometry, geometryType and spatialRel.
C3_FilteredRequestsOnly ==
  \A i \in 1..Len(queries) :
    (queries[i].by = "download" /\ GateCanPass(geom_filter)) =>
      HasSpatialPredicate(queries[i].params)

\* C4: an extent whose area is at least block_extent_sq_deg returns 'block'
\* for every filter and every count the service would report.
C4_HugeExtentBlocks ==
  (CheckReturned /\ extent_rect # ExtentNone
     /\ ExtentArea(extent_rect) >= config.block_extent_sq_deg) =>
    verdict.action = "block"

C4_Witness ==
  /\ CheckReturned
  /\ extent_rect # ExtentNone
  /\ ExtentArea(extent_rect) = config.block_extent_sq_deg
  /\ geom_filter = FilterBbox
  /\ HasFetchJsonPost(downloader)
  /\ server.count = CountOf(0)
  /\ verdict.messages = <<"extent_block">>

\* C5: on a RESTDownloader, with a filter, an extent below the warn area (or
\* none) and no density adjustment, a service that answers the count request
\* with c yields 'block' for c >= block_feature_count, 'warn' for
\* warn_feature_count <= c < block_feature_count, and 'proceed' below.
C5_CountThresholds ==
  (/\ CheckReturned
   /\ downloader.cls = "RESTDownloader"
   /\ ~geom_filter.isNone
   /\ ExtentBelow(config.warn_extent_sq_deg)
   /\ ~DensityAdjusted(verdict, layer_type, config)
   /\ server.count.ok
   /\ server.count.has) =>
    verdict.action =
      IF server.count.count >= config.block_feature_count THEN "block"
      ELSE IF server.count.count >= config.warn_feature_count THEN "warn"
      ELSE "proceed"

\* C6: when neither local rule blocked and the count request fails, check
\* returns 'warn' with feature_count = -1 and the unknown-size reason.
C6_FailedCountWarns ==
  (/\ CheckReturned
   /\ ~geom_filter.isNone
   /\ ExtentBelow(config.block_extent_sq_deg)
   /\ CountQueryFailed) =>
    /\ verdict.action = "warn"
    /\ verdict.feature_count = -1
    /\ \E i \in 1..Len(verdict.messages) :
         verdict.messages[i] = "count_unknown"

C6_Witness ==
  /\ CheckReturned
  /\ Len(queries) = 1
  /\ queries[1].status = "failed"
  /\ geom_filter = FilterRings
  /\ verdict.messages = <<"extent_warn", "count_unknown">>
  /\ verdict.action = "warn"

\* C7: for N >= 1 identifiers and batch size B >= 1 a completed download
\* formed exactly ceil(N/B) batches, each of 1..B identifiers, and the
\* batches in order concatenate to the sorted identifier list.
C7_BatchesPartition ==
  (result.status = "returned" /\ oids # <<>>) =>
    LET N == Len(oids)
        B == downloader.BATCH_SIZE
        k == Len(batches)
    IN /\ (k - 1) * B < N
       /\ N <= k * B
       /\ \A i \in 1..k : 1 <= Len(batches[i]) /\ Len(batches[i]) <= B
       /\ Flatten(batches) = oids
       /\ Len(SelectSeq(queries, LAMBDA q : q.kind = "batch")) = k

C7_Witness ==
  /\ result.status = "returned"
  /\ Len(oids) = 3
  /\ downloader.BATCH_SIZE = 2
  /\ batches = <<<<1, 2>>, <<3>>>>

\* C8: the identifier list used for pagination is sorted and free of
\* duplicates, and consecutive batches satisfy
\* batches[i].max < batches[i+1].min.
C8_BatchRangesDisjoint ==
  /\ \A i \in 1..(Len(oids) - 1) : oids[i] < oids[i + 1]
  /\ \A i \in 1..(Len(batches) - 1) : Last(batches[i]) < batches[i + 1][1]

\* C9: a batch request that fails ends the call with an error: nothing is
\* returned, not even the features of earlier batches, and no further
\* request is sent.
C9_BatchFailureAborts ==
  \A i \in 1..Len(queries) :
    (queries[i].kind = "batch" /\ queries[i].status = "failed") =>
      /\ i = Len(queries)
      /\ dpc = "raised"
      /\ result.status = "raised"
      /\ result.features = <<>>

C9_Witness ==
  /\ dpc = "raised"
  /\ Len(queries) = 4
  /\ Last(queries).kind = "batch"
  /\ Last(queries).status = "failed"
  /\ all_feats # <<>>
  /\ Len(batches) < nb

\* C10: a count reply of zero ends download_features with ([], None): no
\* identifiers request and no batch request is sent.
C10_ZeroCountReturnsEmpty ==
  (/\ dpc \notin {"idle", "start", "send_count", "count"}
   /\ server.count.ok
   /\ server.count.has
   /\ server.count.count = 0) =>
    /\ dpc = "returned"
    /\ result = Returned(<<>>, NoSr)
    /\ Len(queries) = 1
    /\ queries[1].kind = "count"

C10_Witness ==
  /\ dpc = "returned"
  /\ server.count = CountOf(0)
  /\ server.rows # <<>>
  /\ result = Returned(<<>>, NoSr)
  /\ progress = <<<<0, 100, "count">>, <<100, 100, "none">>>>

\* the identifiers request was answered with no identifiers: 'objectIds'
\* is [], null or absent
EmptyIdSet(r) == r.ok /\ (~r.has \/ r.null \/ r.ids = <<>>)

\* C11: a non-zero count followed by an empty identifier list ends
\* download_features with ([], None) as a normal return, and no batch
\* request is sent.
C11_EmptyIdsReturnsEmpty ==
  (/\ Len(replies) >= 2
   /\ replies[1].ok
   /\ CountTotal(replies[1]) # 0
   /\ EmptyIdSet(replies[2])) =>
    /\ dpc = "returned"
    /\ result = Returned(<<>>, NoSr)
    /\ Len(queries) = 2
    /\ \A i \in 1..Len(queries) : queries[i].kind # "batch"

\* C12: check leaves the downloader's TIMEOUT as it found it, whether the
\* count request succeeded or failed; count_timeout is in effect only while
\* the count request is in flight.
C12_TimeoutRestored ==
  [][/\ (gpc = "start" /\ gpc' = "returned") =>
          downloader'.TIMEOUT = downloader.TIMEOUT
     /\ (gpc = "start" /\ gpc' = "count") =>
          /\ original_timeout' = downloader.TIMEOUT
          /\ downloader'.TIMEOUT = config.count_timeout
          /\ Last(queries').timeout = config.count_timeout
     /\ gpc = "count" =>
          /\ gpc' = "returned"
          /\ original_timeout' = original_timeout
          /\ downloader'.TIMEOUT = original_timeout]_vars

C12_Witness ==
  /\ CheckReturned
  /\ Len(queries) = 1
  /\ queries[1].status = "failed"
  /\ queries[1].timeout = config.count_timeout
  /\ downloader.TIMEOUT = original_timeout
  /\ downloader.TIMEOUT > DefaultConfig.count_timeout
  /\ config = DefaultConfig

Has(msgs, m) == \E i \in 1..Len(msgs) : msgs[i] = m

\* C13: every verdict check returns is 'proceed', 'warn' or 'block'; 'block'
\* and 'warn' carry at least one message and 'proceed' carries none.
C13_VerdictMessages ==
  CheckReturned =>
    /\ verdict.action \in {"proceed", "warn", "block"}
    /\ verdict.action = "block" => verdict.messages # <<>>
    /\ verdict.action = "warn" => verdict.messages # <<>>
    /\ verdict.action = "proceed" => verdict.messages = <<>>

C13_Witness ==
  /\ CheckReturned
  /\ verdict.action = "warn"
  /\ verdict.messages = <<"extent_warn">>
  /\ verdict.feature_count = 0
  /\ Len(queries) = 1
  /\ queries[1].status = "ok"

\* the count the service reported reached the comparison with the thresholds
CountCompared ==
  /\ CheckReturned
  /\ ~geom_filter.isNone
  /\ ExtentBelow(config.block_extent_sq_deg)
  /\ HasFetchJsonPost(downloader)
  /\ server.count.ok
  /\ server.count.has

\* the hint names a high-density layer type and the extent is > 0.1 sq deg
DenseAndLarge ==
  /\ layer_type # None
  /\ lower(layer_type) \in config.high_density_layer_types
  /\ extent_rect # ExtentNone
  /\ 10 * ExtentArea(extent_rect) > AreaUnit

\* C14: the count is compared with min(warn_feature_count, 5000) and
\* min(block_feature_count, 50000) when the layer-type hint, lower-cased, is
\* a high-density type and the extent is > 0.1 sq deg, and with the
\* configured thresholds in every other case.
C14_DensityThresholds ==
  CountCompared =>
    LET c == server.count.count
        w == IF DenseAndLarge THEN Min(config.warn_feature_count, 5000)
             ELSE config.warn_feature_count
        b == IF DenseAndLarge THEN Min(config.block_feature_count, 50000)
             ELSE config.block_feature_count
    IN /\ EffectiveWarn(verdict, layer_type, config) = w
       /\ EffectiveBlock(verdict, layer_type, config) = b
       /\ verdict.density_adjusted = DenseAndLarge
       /\ Has(verdict.messages, "count_block") = (c >= b)
       /\ Has(verdict.messages, "count_warn") = (c >= w /\ c < b)
       /\ (verdict.action = "block") = (c >= b)
       /\ (verdict.action = "proceed") = (c < w /\ verdict.messages = <<>>)

C14_Witness ==
  /\ CountCompared
  /\ DenseAndLarge
  /\ layer_type = "Parcels"
  /\ config = DefaultConfig
  /\ server.count.count = 5000
  /\ verdict.action = "warn"
  /\ verdict.messages = <<"count_warn">>

\* the area is 0.05 sq deg to two decimals (3/64 in the model's unit)
AboutATwentieth(area) == 2 * Abs(100 * area - 5 * AreaUnit) < AreaUnit

\* C15: with a reported count of 12,000, an extent of 0.05 sq deg, layer type
\* 'parcels' and the default configuration, check compares against warn =
\* 5,000 and block = 50,000 and returns 'warn' with the estimated-size
\* message.
C15_ParcelsScenario ==
  (/\ CheckReturned
   /\ config = DefaultConfig
   /\ layer_type = "parcels"
   /\ ~geom_filter.isNone
   /\ extent_rect # ExtentNone
   /\ AboutATwentieth(ExtentArea(extent_rect))
   /\ server.count = CountOf(12000)) =>
    /\ EffectiveWarn(verdict, layer_type, config) = 5000
    /\ EffectiveBlock(verdict, layer_type, config) = 50000
    /\ verdict.action = "warn"
    /\ Has(verdict.messages, "count_warn")

\* the callbacks made once the loop is running: the one opening batch j + 1
\* comes after the features of batch j were appended, and so does the last
LoopReports == SelectSeq(progress, LAMBDA c : c[3] \in {"batch", "done"})

\* C16: with a progress callback, every normal return of download_features
\* (features found, zero count, empty identifier list) has seen a call at the
\* start, a call after each batch's features were appended, and a last call
\* with percent 100.
C16_ProgressReported ==
  (result.status = "returned" /\ progress_cb) =>
    /\ progress # <<>>
    /\ progress[1] = <<0, 100, "count">>
    /\ Last(progress)[1] = 100
    /\ batches # <<>> => Len(LoopReports) >= Len(batches) + 1

\* the replies to the batch requests so far (the count and the identifiers
\* replies come first)
BatchRepliesSeen == SubSeq(replies, 3, Len(replies))

RECURSIVE FirstSr(_)
FirstSr(rs) ==
  IF rs = <<>> THEN NoSr
  ELSE IF Head(rs).ok /\ Head(rs).sr # NoSr THEN Head(rs).sr
  ELSE FirstSr(Tail(rs))

\* C17 (as claimed): the spatial reference download_features returns is the
\* one the first batch's reply carried; later replies never determine it.
C17_FirstBatchSr ==
  (result.status = "returned" /\ batches # <<>>) =>
    result.sp_ref = replies[3].sr

\* C17 (amended): the spatial reference download_features returns is that of
\* the first batch reply that carries one, None when none does; once set, no
\* later reply changes it.
C17_FirstAvailableSr ==
  /\ dpc = "batch" => sp_ref = FirstSr(BatchRepliesSeen)
  /\ (result.status = "returned" /\ batches # <<>>) =>
       result.sp_ref = FirstSr(BatchRepliesSeen)

C17_Witness ==
  /\ result.status = "returned"
  /\ Len(batches) = 2
  /\ replies[3].sr = NoSr
  /\ replies[4].sr = SrOf(1)
  /\ result.sp_ref = SrOf(1)

\* the features among the first n of fs whose recorded outcome is a geometry,
\* in input order
RECURSIVE KeptOf(_, _, _)
KeptOf(fs, os, n) ==
  IF n = 0 THEN <<>>
  ELSE IF os[n] = "geom" THEN Append(KeptOf(fs, os, n - 1), fs[n])
  ELSE KeptOf(fs, os, n - 1)

\* C18: in to_qgis_layer, for any input feature list, a feature whose
\* geometry is null or absent, or whose conversion raises or yields no
\* geometry, is left out and adds exactly one to skipped; no feature's
\* failure ends the conversion of the others, so that converted + skipped =
\* input and the converted features keep their input order.
C18_SkippedCounted ==
  conv.pc \in {"loop", "returned", "raised"} /\ conv.features # <<>> =>
    /\ conv.pc # "raised"
    /\ Len(conv.outcomes) = conv.i
    /\ conv.new_feats = KeptOf(conv.features, conv.outcomes, conv.i)
    /\ conv.skipped =
         Cardinality({k \in 1..conv.i : conv.outcomes[k] # "geom"})
    /\ Len(conv.new_feats) + conv.skipped = conv.i
    /\ \A k \in 1..conv.i :
         conv.features[k].geometry.isNone => conv.outcomes[k] # "geom"
    /\ conv.pc = "returned" =>
         /\ conv.i = Len(conv.features)
         /\ conv.layer = [features |-> conv.new_feats]

\* the geometry has no coordinates for a layer of this type: no rings, no
\* paths, no x and y
EmptyPayload(esri_type, gj) ==
  IF esri_type = "esriGeometryPolygon" THEN Payload(gj, "rings") = "empty"
  ELSE IF esri_type = "esriGeometryPolyline"
  THEN Payload(gj, "paths") = "empty"
  ELSE gj.keys \cap {"x", "y"} = {}

\* C20: for a point, polyline or polygon layer, a geometry with an empty or
\* absent coordinate payload converts to no geometry and to_qgis_layer skips
\* its feature.
C20_EmptyPayloadDropped ==
  LET t == egt(conv.geometryType)
  IN (conv.pc \in {"loop", "returned"}
        /\ t \in {"esriGeometryPoint", "esriGeometryPolyline",
                  "esriGeometryPolygon"}) =>
       \A k \in 1..Len(conv.outcomes) :
         (~conv.features[k].geometry.isNone
            /\ EmptyPayload(t, conv.features[k].geometry)) =>
           conv.outcomes[k] # "geom"

\* C19: check_service_health never raises: a failed fetch gives alive =
\* False with layer_count 0 and the error text, a fetched service root gives
\* alive = True with its number of layers.
C19_HealthNeverRaises ==
  /\ Len(health.cache) = Len(health.replies)
  /\ \A k \in 1..Len(health.cache) :
       LET r == health.replies[k]
           h == health.cache[k]
       IN /\ ~h.raised
          /\ h.response_ms \in Elapsed
          /\ ~r.ok =>
               (~h.alive /\ h.layer_count = 0 /\ h.error = r.error)
          /\ (r.ok /\ r.isDict /\ ~r.null) =>
               /\ h.alive
               /\ h.layer_count = (IF r.has THEN r.layers ELSE 0)
               /\ h.error = None

C19_Witness ==
  /\ health.pc = "finished"
  /\ Len(health.cache) = 2
  /\ ~health.replies[1].ok
  /\ ~health.cache[1].alive
  /\ health.cache[1].error = "timeout"
  /\ health.cache[2].alive
  /\ health.cache[2].layer_count = MaxLayers

\* the features of the batch replies received so far, as extend appended
\* them
RECURSIVE Appended(_)
Appended(rs) ==
  IF rs = <<>> THEN <<>>
  ELSE (IF Head(rs).ok /\ Head(rs).has THEN Head(rs).features ELSE <<>>)
         \o Appended(Tail(rs))

\* the where clause of batch j (from 0) of the sorted identifier list
WhereOfSlice(j) ==
  LET B == downloader.BATCH_SIZE
      lo == j * B + 1
      hi == Min((j + 1) * B, Len(oids))
  IN <<oid_field, ">=", oids[lo], "AND", oid_field, "<=", oids[hi]>>

\* C21: the requests of one download_features call go out in the order
\* count, identifiers, batch 0, 1, ..., each once and never again after a
\* failure; a batch request goes out only when the features of the batch
\* before it were appended, and at most one request is outstanding.
C21_QueryOrder ==
  LET n == Len(queries)
  IN /\ \A i \in 1..n :
          /\ queries[i].kind = (IF i = 1 THEN "count"
                                ELSE IF i = 2 THEN "ids" ELSE "batch")
          /\ i < n => queries[i].status = "ok"
          /\ i > 2 => queries[i].params["where"] = WhereOfSlice(i - 3)
     /\ n > 2 => n - 2 <= nb
     /\ Len(replies) = n - (IF n > 0 /\ Last(queries).status = "sent"
                            THEN 1 ELSE 0)
     /\ (n > 2 /\ Last(queries).status = "sent") =>
          all_feats = Appended(BatchRepliesSeen)

C21_Witness ==
  /\ dpc = "batch"
  /\ Len(queries) = 5
  /\ Last(queries).status = "sent"
  /\ nb = 3
  /\ Len(all_feats) = 2

\* xs is in ascending order
Ascending(xs) == \A i \in 1..(Len(xs) - 1) : xs[i] <= xs[i + 1]

\* C22: the features download_features returns are in ascending order of
\* object identifier, in whatever order the service lists the features
\* inside a batch reply.
C22_ResultAscending ==
  dpc = "returned" => Ascending(result.features)

\* check returned 'block' from Check 1 or Check 2, before the count step
BlockedLocally ==
  geom_filter.isNone \/ ~ExtentBelow(config.block_extent_sq_deg)

\* C23: check sends no request when it blocks on the extent or on the
\* missing filter, and otherwise exactly one request, a count-only one; it
\* never sends an identifier or a batch request.
C23_OneCountQuery ==
  /\ \A i \in 1..Len(queries) :
       /\ queries[i].kind = "count"
       /\ HasKey(queries[i].params, "returnCountOnly")
       /\ ~HasKey(queries[i].params, "returnIdsOnly")
  /\ CheckReturned =>
       Len(queries) = (IF BlockedLocally THEN 0 ELSE 1)

\* the extent area lies in [warn_extent_sq_deg, block_extent_sq_deg)
ExtentInWarnBand ==
  /\ extent_rect # ExtentNone
  /\ ExtentArea(extent_rect) >= config.warn_extent_sq_deg
  /\ ExtentArea(extent_rect) < config.block_extent_sq_deg

\* C24: an extent area in the warn band leaves a warning that the later
\* checks keep: with a filter, a count below the effective warn threshold
\* gives 'warn' with the extent warning, and a count at or above the
\* effective block threshold gives 'block' with the extent warning and the
\* count reason.
C24_ExtentWarningKept ==
  (CheckReturned /\ ~geom_filter.isNone /\ ExtentInWarnBand) =>
    /\ Has(verdict.messages, "extent_warn")
    /\ verdict.feature_count < EffectiveWarn(verdict, layer_type, config) =>
         verdict.action = "warn"
    /\ verdict.feature_count >= EffectiveBlock(verdict, layer_type, config) =>
         /\ verdict.action = "block"
         /\ Has(verdict.messages, "count_block")

C24_Witness ==
  /\ CheckReturned
  /\ ~geom_filter.isNone
  /\ ExtentInWarnBand
  /\ verdict.feature_count >= EffectiveBlock(verdict, layer_type, config)
  /\ verdict.action = "block"
  /\ verdict.messages = <<"extent_warn", "count_block">>

\* the geometry-filter part of a request's parameters
GeomKeys == {"geometry", "geometryType", "spatialRel", "inSR"}

GeomPart(params) ==
  [k \in (DOMAIN params) \cap GeomKeys |-> params[k]]

\* C25: the count, identifier and batch requests of one download_features
\* call carry the same geometry, geometryType, spatialRel and inSR (all
\* absent or all identical), and so does the count request the gate builds
\* for the same filter and sr_wkid.
C25_SameGeomParams ==
  \A i \in 1..Len(queries) :
    /\ GeomPart(queries[i].params) = GeomPart(queries[1].params)
    /\ GeomPart(queries[i].params) =
         GeomPart(GateCountParams(geom_filter, sr_wkid))

C25_Witness ==
  /\ Len(queries) >= 4
  /\ Last(queries).kind = "batch"
  /\ "rings" \in geom_filter.keys
  /\ DOMAIN GeomPart(Last(queries).params) = GeomKeys

\* C26: every progress call has total 100 and a percent in 0..100; the
\* percents never decrease; a batch reports between 10 and 95; and 100 is
\* reported only by the last call, when the download completes.  (The
\* second conjunct covers the percents of a run of 85 batches, where the
\* float arithmetic of the code rounds one of them down.)
C26_ProgressShape ==
  /\ \A i \in 1..Len(progress) :
       /\ progress[i][2] = 100
       /\ progress[i][1] \in 0..100
       /\ i < Len(progress) => progress[i][1] <= progress[i + 1][1]
       /\ progress[i][3] = "batch" => progress[i][1] \in 10..95
       /\ progress[i][1] = 100 => (i = Len(progress) /\ dpc = "returned")
  /\ dpc = "start" =>
       \A b \in 0..84 :
         /\ Pct(b, 85) \in 10..95
         /\ b > 0 => Pct(b - 1, 85) <= Pct(b, 85)

C26_Witness ==
  /\ dpc = "returned"
  /\ nb = 3
  /\ Len(progress) = 6
  /\ Last(progress)[1] = 100
  /\ progress[5][1] = Pct(2, 3)

\* C27: check_service_health leaves the downloader's TIMEOUT as it was
\* before the call, whether the fetch succeeded or failed, so that a failed
\* probe does not change the timeout of later requests.
C27_HealthKeepsTimeout ==
  (health.pc \in {"loop", "finished"} /\ health.replies # <<>>) =>
    downloader.TIMEOUT = health.before

\* C28: download_features never reads a JSON reply without its payload field
\* as empty data: a count reply without 'count' does not end in ([], None),
\* and no normal return follows a batch reply without 'features'.
C28_MissingPayloadNotEmpty ==
  dpc = "returned" =>
    /\ ~(server.count.ok /\ ~server.count.has)
    /\ \A k \in 1..Len(BatchRepliesSeen) :
         BatchRepliesSeen[k].ok => BatchRepliesSeen[k].has

\* proceed < warn < block
Severity(action) ==
  IF action = "proceed" THEN 0 ELSE IF action = "warn" THEN 1 ELSE 2

\* the action check returns for the same arguments when the service reports
\* the count c
ActionAt(c) ==
  check(downloader, config, geom_filter, layer_type, extent_rect,
        CountOf(c)).action

\* C29: for a fixed filter, extent, layer type and configuration the
\* verdict is monotone in the count the service reports: a larger count
\* never gives a less severe action (proceed < warn < block).
C29_MonotoneInCount ==
  (CheckReturned /\ server.count.ok /\ server.count.has) =>
    \A c1 \in GateCounts :
      c1 <= server.count.count =>
        Severity(ActionAt(c1)) <= Severity(verdict.action)

C29_Witness ==
  /\ CheckReturned
  /\ server.count.ok
  /\ server.count.has
  /\ verdict.action = "warn"
  /\ verdict.feature_count = server.count.count
  /\ \E c1 \in GateCounts :
       c1 < server.count.count /\ ActionAt(c1) = "proceed"
  /\ \E c2 \in GateCounts :
       c2 > server.count.count /\ ActionAt(c2) = "block"

\* the geometry carries well-formed coordinates of the layer's kind
HasPayload(esri_type, gj) ==
  IF esri_type = "esriGeometryPolygon" THEN Payload(gj, "rings") = "ok"
  ELSE IF esri_type = "esriGeometryPolyline" THEN Payload(gj, "paths") = "ok"
  ELSE IF esri_type = "esriGeometryMultipoint"
  THEN Payload(gj, "points") = "ok"
  ELSE {"x", "y"} \subseteq gj.keys

\* C30: for each geometry kind a layer can declare (point, multipoint,
\* polyline, polygon), to_qgis_layer converts a feature whose geometry has
\* a non-empty payload of that kind and puts it in the layer instead of
\* skipping it.
C30_EveryKindConverted ==
  LET t == egt(conv.geometryType)
  IN conv.pc \in {"loop", "returned"} =>
       \A k \in 1..Len(conv.outcomes) :
         (~conv.features[k].geometry.isNone
            /\ HasPayload(t, conv.features[k].geometry)) =>
           /\ conv.outcomes[k] = "geom"
           /\ \E j \in 1..Len(conv.new_feats) :
                conv.new_feats[j] = conv.features[k]

====
